---- MODULE Spec2Model ----
(***************************************************************************)
(* The image-analysis request pipeline of src/services/geminiService.ts:   *)
(* credential resolution, image normalisation, prompt composition, the     *)
(* retry-wrapped remote call and the normalisation of the response.        *)
(*                                                                         *)
(* geminiService.ts holds two revisions of the service one after the other *)
(* (lines 1-223 and lines 224-512).  The variable version selects the      *)
(* revision an invocation runs: "v1" is the earlier one, "v2" the later.   *)
(*                                                                         *)
(* Texts.  The code decides by String.prototype.includes on error texts.   *)
(* A text is modelled as the set of its fragments; a fragment is written   *)
(* as it appears on the wire, so that case matters, and Subs gives the     *)
(* signatures a fragment contains as substrings.                           *)
(*                                                                         *)
(* Besides one analyzeImage invocation (Spec) the module follows, each     *)
(* under a specification of its own while the others stay idle: one        *)
(* fileToGenericBase64 invocation (SpecNormalizer), the withRetry calls of *)
(* concurrent invocations (SpecConcurrent), the invocations of             *)
(* validateApiKey (SpecValidator) and the handlers of src/App.tsx          *)
(* (SpecApp; SpecExamples for the records and the reference examples).     *)
(* LiveSpec and LiveSpecProcessing add the fairness of timers and of       *)
(* settlements for the properties of progress.                             *)
(***************************************************************************)
EXTENDS Integers, Sequences, FiniteSets, TLC

\* Bound of the model: the longest list of reference examples a caller passes.
MaxExamples == 3

\* withRetry's default parameters.
DefaultRetries == 3
BaseDelayV1 == 2000
BaseDelayV2 == 5000

Versions == {"v1", "v2"}

-----------------------------------------------------------------------------
(* Texts and substring search *)

\* The signatures of a fragment: the search strings of the code that occur in
\* it as substrings (case-sensitively, as includes compares).
Subs(a) ==
    CASE a = "api key not valid"  -> {"api key not valid"}
      [] a = "key invalid"        -> {"key invalid"}
      [] a = "400 bad request"    -> {"400 bad request"}
      [] a = "429"                -> {"429"}
      [] a = "\"code\":429"       -> {"\"code\":429", "429"}
      [] a = "quota"              -> {"quota"}
      [] a = "exhausted"          -> {"exhausted"}
      [] a = "resource_exhausted" -> {"resource_exhausted", "exhausted"}
      [] a = "503"                -> {"503"}
      [] a = "overloaded"         -> {"overloaded"}
      [] a = "(429 Rate Limit)"   -> {"429"}
      [] a = "in JSON at position 429" -> {"429"}
      [] OTHER                    -> {}

\* String.prototype.toLowerCase on one fragment.
LowerAtom(a) ==
    CASE a = "API key not valid"   -> "api key not valid"
      [] a = "Key Invalid"         -> "key invalid"
      [] a = "400 Bad Request"     -> "400 bad request"
      [] a = "Quota"               -> "quota"
      [] a = "RESOURCE_EXHAUSTED"  -> "resource_exhausted"
      [] a = "Overloaded"          -> "overloaded"
      [] a = "UNAVAILABLE"         -> "unavailable"
      [] a = "(429 Rate Limit)"    -> "(429 rate limit)"
      [] a = "(429 rate limit)"    -> "(429 rate limit)"
      [] OTHER                     -> a

toLowerCase(t) == {LowerAtom(a) : a \in t}

includes(t, sig) == \E a \in t : sig \in Subs(a)

-----------------------------------------------------------------------------
(* Errors *)

\* A thrown value: its message (hasMessage: error.message is truthy), what
\* toString() gives, what JSON.stringify gives (jsonThrows: it throws, as on a
\* circular structure), and the remote attempt that produced it (0: local).
MkError(name, hasMessage, message, str, jsonThrows, json) ==
    [name |-> name, hasMessage |-> hasMessage, message |-> message, str |-> str,
     jsonThrows |-> jsonThrows, json |-> json, attempt |-> 0]

\* new Error(t): message and toString carry the text t, JSON.stringify gives
\* "{}".
NewError(t) == MkError("Error", TRUE, t, t, FALSE, {})

MissingKeyMsg  == "Missing API Key"
InvalidKeyMsg  == "Invalid API Key"
NoResponseMsg  == "No response from AI"
NoContextMsg   == "Could not get canvas context"
SyntaxErrorMsg == "Unexpected token"
RateLimitMsg1  == "(429 Rate Limit)"
RateLimitMsg2  == "rate limit, try again later"
ServerBusyMsg  == "server busy, try again later"
UndefinedMsg   == "Cannot read properties of undefined"

\* The failures a remote attempt can end with.  The SDK's ApiError carries the
\* response body as its message and name and status as enumerable properties;
\* other values (a network TypeError, a thrown payload object, an error whose
\* properties are circular) reach withRetry as well.
RemoteErrors ==
    { MkError("ApiError429", TRUE, {"\"code\":429", "Quota", "RESOURCE_EXHAUSTED"},
              {"\"code\":429", "Quota", "RESOURCE_EXHAUSTED"}, FALSE, {"429"}),
      MkError("ApiError503", TRUE, {"503", "Overloaded", "UNAVAILABLE"},
              {"503", "Overloaded", "UNAVAILABLE"}, FALSE, {"503"}),
      MkError("ApiError400", TRUE, {"API key not valid"},
              {"API key not valid"}, FALSE, {"400"}),
      MkError("NetworkError", TRUE, {"fetch failed"}, {"fetch failed"}, FALSE, {}),
      MkError("QuotaMessage", TRUE, {"Quota"}, {"Quota"}, FALSE, {}),
      MkError("PayloadInvalid", FALSE, {}, {"[object Object]"}, FALSE,
              {"API key not valid", "400"}),
      MkError("PayloadQuota", FALSE, {}, {"[object Object]"}, FALSE,
              {"RESOURCE_EXHAUSTED"}),
      MkError("PayloadBoth", TRUE, {"Key Invalid", "429"}, {"Key Invalid", "429"},
              FALSE, {"Key Invalid", "429"}),
      MkError("StatusQuota", TRUE, {"Quota"}, {"Quota"}, FALSE,
              {"RESOURCE_EXHAUSTED"}),
      MkError("CircularQuota", TRUE, {"Quota"}, {"Quota"}, TRUE, {}),
      MkError("Circular503", TRUE, {"503"}, {"503"}, TRUE, {}) }

NoError == MkError("none", FALSE, {}, {}, FALSE, {})

-----------------------------------------------------------------------------
(* withRetry: classification of a failure *)

\* The text withRetry searches.
ErrorMsg(v, e) ==
    IF v = "v1" THEN toLowerCase(e.str)
    ELSE IF e.jsonThrows THEN (IF e.hasMessage THEN e.message ELSE e.str)
    ELSE toLowerCase(e.json)

IsInvalidKey(msg) ==
    \/ includes(msg, "api key not valid")
    \/ includes(msg, "key invalid")
    \/ includes(msg, "400 bad request")

IsRateLimit(v, msg) ==
    \/ includes(msg, "429")
    \/ includes(msg, "quota")
    \/ includes(msg, "exhausted")
    \/ (v = "v2" /\ includes(msg, "resource_exhausted"))

IsServerOverload(msg) ==
    \/ includes(msg, "503")
    \/ includes(msg, "overloaded")

\* Mutant: the retryable signatures are tested before the credential ones.
RetryDecisionRetryFirst(v, msg, retriesLeft) ==
    IF (IsRateLimit(v, msg) \/ IsServerOverload(msg)) /\ retriesLeft > 0
    THEN "retry"
    ELSE IF IsInvalidKey(msg) THEN "invalid"
    ELSE "rethrow"

\* Mutant: the retries left are not tested.
RetryDecisionNoBudget(v, msg, retriesLeft) ==
    IF IsInvalidKey(msg) THEN "invalid"
    ELSE IF IsRateLimit(v, msg) \/ IsServerOverload(msg) THEN "retry"
    ELSE "rethrow"

\* Mutant: the retries left are tested with >= in place of >.
RetryDecisionOffByOne(v, msg, retriesLeft) ==
    IF IsInvalidKey(msg) THEN "invalid"
    ELSE IF (IsRateLimit(v, msg) \/ IsServerOverload(msg)) /\ retriesLeft >= 0
         THEN "retry"
    ELSE "rethrow"

\* Mutant: every failure but a credential one is retried while retries are left.
RetryDecisionRetryAll(v, msg, retriesLeft) ==
    IF IsInvalidKey(msg) THEN "invalid"
    ELSE IF retriesLeft > 0 THEN "retry"
    ELSE "rethrow"

\* Mutant: once a retry was made, every failure is retried while retries are
\* left.
RetryDecisionAfterRetry(v, msg, retriesLeft) ==
    IF retriesLeft > 0 /\ retriesLeft < DefaultRetries THEN "retry"
    ELSE IF IsInvalidKey(msg) THEN "invalid"
    ELSE IF (IsRateLimit(v, msg) \/ IsServerOverload(msg)) /\ retriesLeft > 0
         THEN "retry"
    ELSE "rethrow"

\* Mutant: a credential signature counts only when no retryable one is there.
RetryDecisionInvalidAlone(v, msg, retriesLeft) ==
    IF IsInvalidKey(msg) /\ ~(IsRateLimit(v, msg) \/ IsServerOverload(msg))
    THEN "invalid"
    ELSE IF (IsRateLimit(v, msg) \/ IsServerOverload(msg)) /\ retriesLeft > 0
         THEN "retry"
    ELSE "rethrow"

\* What the catch block of withRetry does with the text msg and the retries
\* left: "invalid" (throw the invalid-credential error), "retry" (wait, then
\* call again) or "rethrow" (throw the error caught).
RetryDecision(v, msg, retriesLeft) ==
    IF IsInvalidKey(msg) THEN "invalid"
    ELSE IF (IsRateLimit(v, msg) \/ IsServerOverload(msg)) /\ retriesLeft > 0
         THEN "retry"
    ELSE "rethrow"

BaseDelay(v) == IF v = "v1" THEN BaseDelayV1 ELSE BaseDelayV2

\* Mutant: the delay is passed on as it is.
NextDelayConstant(d) == d

\* The delay withRetry passes to its recursive call.
NextDelay(d) == d * 2

-----------------------------------------------------------------------------
(* Credential Resolver *)

\* A credential is a string; "" is the empty (falsy) one.
getSystemApiKey(env, vite) ==
    IF env # "" THEN env
    ELSE IF vite # "" THEN vite
    ELSE ""

\* Mutant: the deployment credential is preferred to the user's.
EffectiveKeyDeploymentFirst(v, key, env, vite) ==
    IF v = "v1" /\ env # "" THEN env
    ELSE IF v = "v2" /\ getSystemApiKey(env, vite) # "" THEN getSystemApiKey(env, vite)
    ELSE key

\* const effectiveKey = apiKey || <deployment credential>.
EffectiveKey(v, key, env, vite) ==
    IF key # "" THEN key
    ELSE IF v = "v1" THEN env
    ELSE getSystemApiKey(env, vite)

-----------------------------------------------------------------------------
(* Prompt Composer *)

ExampleIds == 1..MaxExamples

\* The lists of reference examples a caller passes: handleAddToExamples keeps
\* the ids distinct.
ExampleLists ==
    { s \in UNION { [1..n -> ExampleIds] : n \in 0..MaxExamples } :
        \A i, j \in DOMAIN s : i # j => s[i] # s[j] }

\* Mutant: slice(0, k), the first k elements.
SliceFirst(s, k) ==
    IF Len(s) <= k THEN s ELSE SubSeq(s, 1, k)

\* Array.prototype.slice(-k): the last k elements, or all when there are fewer.
SliceLast(s, k) ==
    IF Len(s) <= k THEN s ELSE SubSeq(s, Len(s) - k + 1, Len(s))

\* The two parts pushed for each example of limitedExamples, in order.
RECURSIVE ExampleParts(_)
ExampleParts(exs) ==
    IF exs = << >> THEN << >>
    ELSE << [type |-> "inlineData", role |-> "example", ref |-> Head(exs)],
            [type |-> "text", role |-> "exampleOutput", ref |-> Head(exs)] >>
         \o ExampleParts(Tail(exs))

\* parts: the few-shot examples, the target image, the closing instruction.
ComposeParts(exs) ==
    ExampleParts(SliceLast(exs, 1))
    \o << [type |-> "inlineData", role |-> "target", ref |-> 0],
          [type |-> "text", role |-> "instruction", ref |-> 0] >>

-----------------------------------------------------------------------------
(* Response Normalizer *)

\* A response text is a sequence of tokens: "ws" a run of whitespace,
\* "fence_json" and "fence" the markdown fence markers with and without the
\* json tag, JSON punctuation, JSON values that are not arrays, and
\* "junk" for anything that is not JSON, "junkAt429" for the same at offset
\* 429 of the text.
JsonAtoms == {"objA", "objB", "num", "null"}

RECURSIVE TrimLeft(_)
TrimLeft(t) ==
    IF t # << >> /\ Head(t) = "ws" THEN TrimLeft(Tail(t)) ELSE t

RECURSIVE TrimRight(_)
TrimRight(t) ==
    IF t # << >> /\ t[Len(t)] = "ws" THEN TrimRight(SubSeq(t, 1, Len(t) - 1)) ELSE t

\* String.prototype.trim.
trim(t) == TrimRight(TrimLeft(t))

startsWith(t, tok) == t # << >> /\ Head(t) = tok

\* The two replacements: an opening json fence with the whitespace after it,
\* then a closing fence at the very end with the whitespace before it.
StripFence(t) ==
    LET a == IF startsWith(t, "fence_json") THEN TrimLeft(Tail(t)) ELSE t
    IN  IF a # << >> /\ a[Len(a)] = "fence"
        THEN TrimRight(SubSeq(a, 1, Len(a) - 1))
        ELSE a

\* cleanJson: the text handed to JSON.parse.
CleanJson(t) ==
    IF startsWith(trim(t), "fence_json") THEN StripFence(trim(t)) ELSE trim(t)

\* JSON ignores whitespace between tokens.
NoWs(t) == SelectSeq(t, LAMBDA x : x # "ws")

\* The elements of "v , v , ... , v", or << "junk" >> when it is not that.
RECURSIVE Elements(_)
Elements(t) ==
    IF t = << >> THEN << "junk" >>
    ELSE IF Head(t) \notin JsonAtoms THEN << "junk" >>
    ELSE IF Len(t) = 1 THEN << Head(t) >>
    ELSE IF t[2] # "," THEN << "junk" >>
    ELSE LET rest == Elements(SubSeq(t, 3, Len(t)))
         IN  IF rest = << "junk" >> THEN rest ELSE << Head(t) >> \o rest

\* JSON.parse: [ok |-> FALSE] for a SyntaxError, else whether the value is an
\* array, its elements, and the value itself when it is not an array.
JsonParse(t) ==
    LET u == NoWs(t)
        bad == [ok |-> FALSE, isArray |-> FALSE, items |-> << >>, atom |-> ""]
    IN  IF Len(u) = 1 /\ u[1] \in JsonAtoms
        THEN [ok |-> TRUE, isArray |-> FALSE, items |-> << >>, atom |-> u[1]]
        ELSE IF Len(u) >= 2 /\ u[1] = "[" /\ u[Len(u)] = "]"
        THEN IF Len(u) = 2
             THEN [ok |-> TRUE, isArray |-> TRUE, items |-> << >>, atom |-> ""]
             ELSE LET es == Elements(SubSeq(u, 2, Len(u) - 1))
                  IN  IF es = << "junk" >> THEN bad
                      ELSE [ok |-> TRUE, isArray |-> TRUE, items |-> es, atom |-> ""]
        ELSE bad

\* Mutant: the parsed value is returned as it is.
EnsureArrayNoWrap(p) == p.items

\* if (!Array.isArray(parsedData)) parsedData = [parsedData].
EnsureArray(p) == IF p.isArray THEN p.items ELSE << p.atom >>

\* The response texts the remote call can return.
ResponseTexts ==
    { << "[", "objA", "]" >>,
      << "[", "objA", ",", "objB", "]" >>,
      << "[", "objB", ",", "objA", ",", "objB", "]" >>,
      << "fence_json", "ws", "[", "objA", "]", "ws", "fence" >>,
      << "ws", "fence_json", "ws", "objB", "ws", "fence", "ws" >>,
      << "fence", "ws", "[", "objA", "]", "ws", "fence" >>,
      << "objA" >>,
      << "ws", "null", "ws" >>,
      << "num" >>,
      << "ws", "[", "ws", "]", "ws" >>,
      << >>,
      << "ws" >>,
      << "junk" >>,
      << "[", "objA", "," , "]" >>,
      << "[", "objA" >>,
      << "[", "objA", ",", "junkAt429" >> }

\* if (!responseText): the text is the empty string (or undefined).
IsEmptyTextNever(r) == FALSE

IsEmptyText(r) == r = << >>

\* The SyntaxError JSON.parse throws on the text t: the engine's message names
\* the offset of the character it rejected.
ParseError(t) ==
    LET msg == IF \E i \in 1..Len(t) : t[i] = "junkAt429"
               THEN {SyntaxErrorMsg, "in JSON at position 429"}
               ELSE {SyntaxErrorMsg}
    IN  MkError("SyntaxError", TRUE, msg, msg, FALSE, {})

-----------------------------------------------------------------------------
(* Image Normalizer: how fileToGenericBase64 settles *)

\* "ok": resolved with the JPEG data; "noContext": getContext gave null;
\* "readError", "decodeError": reader.onerror or img.onerror rejected with the
\* event, a value that has no message.
NormalizeOutcomes == {"ok", "noContext", "readError", "decodeError"}

NormalizeError(o) ==
    IF o = "noContext" THEN NewError({NoContextMsg})
    ELSE MkError(o, FALSE, {}, {"[object Event]"}, FALSE, {"isTrusted"})

-----------------------------------------------------------------------------
(* analyzeImage: the catch block *)

\* v1 rethrows the error caught.  v2 throws a new Error with a message made
\* from error.message; reading includes of an undefined message throws a
\* TypeError out of the catch block.
CatchAndRethrow(v, e) ==
    IF v = "v1" THEN e
    ELSE IF ~e.hasMessage
         THEN MkError("TypeError", TRUE, {UndefinedMsg}, {UndefinedMsg}, FALSE, {})
    ELSE IF includes(e.message, "\"code\":429")
         THEN NewError({RateLimitMsg2, RateLimitMsg1})
    ELSE IF includes(e.message, "429") THEN NewError({RateLimitMsg2})
    ELSE IF includes(e.message, "503") THEN NewError({ServerBusyMsg})
    ELSE NewError(e.message)

-----------------------------------------------------------------------------
(* State of one analyzeImage invocation *)

VARIABLES
    version,        \* the revision of the service that runs
    apiKey,         \* the user-supplied credential
    envKey,         \* process.env.API_KEY
    viteKey,        \* import.meta.env.VITE_API_KEY
    examples,       \* the reference examples passed, oldest first
    pc,             \* where the invocation is suspended, or how it settled
    effectiveKey,   \* the credential the client is made with
    normalizeCalls, \* calls of fileToGenericBase64
    normOutcome,    \* how fileToGenericBase64 settled, "none" before it has
    parts,          \* the request parts composed
    retries,        \* withRetry: retries left in the current call
    delay,          \* withRetry: baseDelay of the current call
    attempts,       \* remote calls started
    inFlight,       \* remote calls started and not settled
    timers,         \* backoff timers set and not fired
    waits,          \* the delays waited, in order
    hist,           \* the signatures matched by each failed attempt, in order
    lastError,      \* the error the last failed attempt ended with
    wrOutcome,      \* how withRetry settled
    result,         \* the array analyzeImage returned
    thrown,         \* the error analyzeImage threw
    steps           \* the steps of the pipeline that started, in order

inputVars == << version, apiKey, envKey, viteKey, examples >>
retryVars == << retries, delay, attempts, inFlight, timers, waits, hist, lastError >>
pipeVars == << inputVars, pc, effectiveKey, normalizeCalls, normOutcome, parts,
               retryVars, wrOutcome, result, thrown, steps >>

-----------------------------------------------------------------------------
(* State of one fileToGenericBase64 invocation *)

VARIABLES
    fpc,            \* where the invocation is: "idle", "reading", "decoding",
                    \* "resolved", "rejected"
    imgWidth,       \* img.width of the decoded image
    imgHeight,      \* img.height of the decoded image
    canvasWidth,    \* canvas.width as the canvas keeps it
    canvasHeight,   \* canvas.height as the canvas keeps it
    rejection       \* what the promise was rejected with, "none" before

normVars == << fpc, imgWidth, imgHeight, canvasWidth, canvasHeight, rejection >>

NormalizerIdle ==
    /\ fpc = "idle"
    /\ imgWidth = 0
    /\ imgHeight = 0
    /\ canvasWidth = 0
    /\ canvasHeight = 0
    /\ rejection = "none"

-----------------------------------------------------------------------------
(* State of the withRetry calls of concurrent analyzeImage invocations *)

\* Bound of the model: the invocations Promise.all runs at a time.
MaxInvocations == 2

Invocations == 1..MaxInvocations

VARIABLES
    runs            \* for each invocation, the state of its withRetry call

runVars == << runs >>

\* withRetry not called yet: its parameters are not bound.
IdleRun ==
    [pc |-> "idle", retries |-> 0, delay |-> 0, attempts |-> 0, waits |-> << >>,
     fails |-> << >>]

RunsIdle == runs = [i \in Invocations |-> IdleRun]

-----------------------------------------------------------------------------
(* State of the invocations of validateApiKey *)

\* Bound of the model: the invocations of validateApiKey followed.
MaxValidations == 2

VARIABLES
    vpc,            \* "idle", or "probing" while the probe call is in flight
    vKey,           \* the credential of the invocation in progress
    vProbes,        \* probe calls started by the invocation in progress
    vCalls,         \* invocations started
    vResults        \* how each invocation settled, in order

valVars == << vpc, vKey, vProbes, vCalls, vResults >>

ValidatorIdle ==
    /\ vpc = "idle"
    /\ vKey = ""
    /\ vProbes = 0
    /\ vCalls = 0
    /\ vResults = << >>

-----------------------------------------------------------------------------
(* State of the application component App *)

\* Bounds of the model: the files uploaded in a session, each under an id of
\* its own, and the names a field can have.
MaxFiles == 2
MaxFieldNames == 2

\* Bound of the model: the handleAddToExamples calls that wait at a time.
MaxPromotions == 1

FileIds == 1..MaxFiles
FieldNames == 1..MaxFieldNames

VARIABLES
    files,              \* the status of each file: "unused" before its upload,
                        \* "removed" once it left the list
    fields,             \* the field schema, in order
    isProcessing,       \* a Process All run is under way
    userKey,            \* the state apiKey of App
    buildKey,           \* process.env.API_KEY of the bundle
    metaEnvKey,         \* import.meta.env.VITE_API_KEY of the bundle
    isApiKeyModalOpen,  \* the credential dialog covers the page
    calls,              \* for each file, the analyzeImage calls in flight for
                        \* it: of the Process All run (batch), of retries (single)
    issued,             \* the analyzeImage calls the last step started
    data,               \* the records of each file: "none", "analysed" as
                        \* analyzeImage returned them, "edited" after a cell edit
    referenceExamples,  \* the reference examples, oldest first
    promoting           \* the handleAddToExamples calls that wait for
                        \* fileToGenericBase64, each with the file it was given

exampleVars == << referenceExamples, promoting >>

appVars == << files, fields, isProcessing, userKey, buildKey, metaEnvKey,
              isApiKeyModalOpen, calls, issued, data, exampleVars >>

NoCalls == [batch |-> 0, single |-> 0]

AppIdle ==
    /\ files = [id \in FileIds |-> "unused"]
    /\ fields = << >>
    /\ isProcessing = FALSE
    /\ userKey = ""
    /\ buildKey = ""
    /\ metaEnvKey = ""
    /\ isApiKeyModalOpen = FALSE
    /\ calls = [id \in FileIds |-> NoCalls]
    /\ issued = {}
    /\ data = [id \in FileIds |-> "none"]
    /\ referenceExamples = << >>
    /\ promoting = {}

-----------------------------------------------------------------------------
(* analyzeImage *)

\* The state of the components that take no part in an analyzeImage invocation.
notPipeVars == << normVars, runVars, valVars, appVars >>

NotPipeIdle == NormalizerIdle /\ RunsIdle /\ ValidatorIdle /\ AppIdle

Credentials(k) == {"", k}

\* How withRetry settled: with a value (the response text) or an error, and
\* the remote attempt that decided it.
NoOutcome == [kind |-> "none", error |-> NoError, response |-> << >>, attempt |-> 0]

Init ==
    /\ version \in Versions
    /\ apiKey \in Credentials("user-key")
    /\ envKey \in Credentials("env-key")
    /\ viteKey \in Credentials("vite-key")
    /\ examples \in ExampleLists
    /\ pc = "start"
    /\ effectiveKey = ""
    /\ normalizeCalls = 0
    /\ normOutcome = "none"
    /\ parts = << >>
    /\ retries = 0
    /\ delay = 0
    /\ attempts = 0
    /\ inFlight = 0
    /\ timers = 0
    /\ waits = << >>
    /\ hist = << >>
    /\ lastError = NoError
    /\ wrOutcome = NoOutcome
    /\ result = << >>
    /\ thrown = NoError
    /\ steps = << >>
    /\ NotPipeIdle

\* analyzeImage's catch block receives e: the invocation ends by throwing.
Throw(e) ==
    /\ thrown' = CatchAndRethrow(version, e)
    /\ pc' = "thrown"
    /\ result' = result

\* Mutant: the effective credential is not tested.
ResolveCredentialNoCheck ==
    /\ pc = "start"
    /\ effectiveKey' = EffectiveKey(version, apiKey, envKey, viteKey)
    /\ pc' = "normalizing"
    /\ normalizeCalls' = normalizeCalls + 1
    /\ steps' = steps \o << "resolve", "normalize" >>
    /\ UNCHANGED << inputVars, normOutcome, parts, retryVars, wrOutcome, result,
                    thrown >>

\* analyzeImage up to its first await: the credential is resolved; without one
\* the missing-credential error is thrown, else the client is made and the
\* normalisation of the image starts.
ResolveCredential ==
    /\ pc = "start"
    /\ effectiveKey' = EffectiveKey(version, apiKey, envKey, viteKey)
    /\ IF effectiveKey' = ""
       THEN /\ Throw(NewError({MissingKeyMsg}))
            /\ steps' = Append(steps, "resolve")
            /\ UNCHANGED normalizeCalls
       ELSE /\ pc' = "normalizing"
            /\ normalizeCalls' = normalizeCalls + 1
            /\ steps' = steps \o << "resolve", "normalize" >>
            /\ UNCHANGED << result, thrown >>
    /\ UNCHANGED << inputVars, normOutcome, parts, retryVars, wrOutcome >>

\* Mutant: the rejection is swallowed and the request is composed and sent.
NormalizeFailsContinues(o) ==
    /\ pc = "normalizing"
    /\ o # "ok"
    /\ normOutcome' = o
    /\ parts' = ComposeParts(examples)
    /\ retries' = DefaultRetries
    /\ delay' = BaseDelay(version)
    /\ attempts' = attempts + 1
    /\ inFlight' = inFlight + 1
    /\ pc' = "calling"
    /\ steps' = steps \o << "compose", "call" >>
    /\ UNCHANGED << inputVars, effectiveKey, normalizeCalls, timers, waits, hist,
                    lastError, wrOutcome, result, thrown >>

\* Mutant: after a rejection the image is normalised again.
NormalizeFailsRetries(o) ==
    /\ pc = "normalizing"
    /\ o # "ok"
    /\ normalizeCalls < 2
    /\ normOutcome' = o
    /\ normalizeCalls' = normalizeCalls + 1
    /\ UNCHANGED << inputVars, pc, effectiveKey, parts, retryVars, wrOutcome, result,
                    thrown, steps >>

\* fileToGenericBase64 rejects: analyzeImage's catch block runs.
NormalizeFails(o) ==
    /\ pc = "normalizing"
    /\ o # "ok"
    /\ normOutcome' = o
    /\ Throw(NormalizeError(o))
    /\ UNCHANGED << inputVars, effectiveKey, normalizeCalls, parts, retryVars,
                    wrOutcome, steps >>

\* fileToGenericBase64 resolves: the parts are composed, withRetry is called
\* with its default parameters and starts the first remote call.
NormalizeSucceeds ==
    /\ pc = "normalizing"
    /\ normOutcome' = "ok"
    /\ parts' = ComposeParts(examples)
    /\ retries' = DefaultRetries
    /\ delay' = BaseDelay(version)
    /\ attempts' = attempts + 1
    /\ inFlight' = inFlight + 1
    /\ pc' = "calling"
    /\ steps' = steps \o << "compose", "call" >>
    /\ UNCHANGED << inputVars, effectiveKey, normalizeCalls, timers, waits, hist,
                    lastError, wrOutcome, result, thrown >>

\* Every text of an error, in lower case: its message, what toString gives
\* and what JSON.stringify gives.
AllText(e) == toLowerCase(e.message \cup e.str \cup e.json)

\* What a failed attempt is recorded with.  invalid, rate, overload: the
\* signatures matched by the text withRetry searches.  anyInvalid, anyRate,
\* anyOverload: the signatures that occur, in any case, in any text of the
\* error.
Signature(v, e) ==
    [invalid     |-> IsInvalidKey(ErrorMsg(v, e)),
     rate        |-> IsRateLimit(v, ErrorMsg(v, e)),
     overload    |-> IsServerOverload(ErrorMsg(v, e)),
     anyInvalid  |-> IsInvalidKey(AllText(e)),
     anyRate     |-> IsRateLimit(v, AllText(e)),
     anyOverload |-> IsServerOverload(AllText(e))]

\* Mutant: the backoff promise is not awaited, the next call starts at once.
AttemptFailsNoAwait(err) ==
    /\ pc = "calling"
    /\ LET e == [err EXCEPT !.attempt = attempts]
           d == RetryDecision(version, ErrorMsg(version, e), retries)
       IN  /\ lastError' = e
           /\ hist' = Append(hist, Signature(version, e))
           /\ IF d = "retry"
              THEN /\ timers' = timers + 1
                   /\ waits' = Append(waits, delay)
                   /\ retries' = retries - 1
                   /\ delay' = NextDelay(delay)
                   /\ attempts' = attempts + 1
                   /\ inFlight' = inFlight
                   /\ pc' = "calling"
                   /\ UNCHANGED << wrOutcome, result, thrown >>
              ELSE /\ wrOutcome' =
                        [kind |-> "error",
                         error |-> IF d = "invalid" THEN NewError({InvalidKeyMsg}) ELSE e,
                         response |-> << >>,
                         attempt |-> attempts]
                   /\ inFlight' = inFlight - 1
                   /\ Throw(wrOutcome'.error)
                   /\ UNCHANGED << timers, waits, retries, delay, attempts >>
    /\ UNCHANGED << inputVars, effectiveKey, normalizeCalls, normOutcome, parts, steps >>

\* The remote call in flight rejects with err: the catch block of withRetry
\* throws the invalid-credential error, or sets the backoff timer, or rethrows.
AttemptFails(err) ==
    /\ pc = "calling"
    /\ LET e == [err EXCEPT !.attempt = attempts]
           d == RetryDecision(version, ErrorMsg(version, e), retries)
       IN  /\ inFlight' = inFlight - 1
           /\ lastError' = e
           /\ hist' = Append(hist, Signature(version, e))
           /\ IF d = "retry"
              THEN /\ pc' = "waiting"
                   /\ timers' = timers + 1
                   /\ waits' = Append(waits, delay)
                   /\ UNCHANGED << wrOutcome, result, thrown >>
              ELSE /\ wrOutcome' =
                        [kind |-> "error",
                         error |-> IF d = "invalid" THEN NewError({InvalidKeyMsg}) ELSE e,
                         response |-> << >>,
                         attempt |-> attempts]
                   /\ Throw(wrOutcome'.error)
                   /\ UNCHANGED << timers, waits >>
    /\ UNCHANGED << inputVars, effectiveKey, normalizeCalls, normOutcome, parts, retries, delay,
                    attempts, steps >>

\* Mutant: the timer fires and nothing follows.
TimerFiresLost ==
    /\ pc = "waiting"
    /\ UNCHANGED pipeVars

\* The backoff timer fires: withRetry calls itself with one retry less and the
\* delay doubled, which starts the next remote call.
TimerFires ==
    /\ pc = "waiting"
    /\ timers' = timers - 1
    /\ retries' = retries - 1
    /\ delay' = NextDelay(delay)
    /\ attempts' = attempts + 1
    /\ inFlight' = inFlight + 1
    /\ pc' = "calling"
    /\ UNCHANGED << inputVars, effectiveKey, normalizeCalls, normOutcome, parts, waits, hist,
                    lastError, wrOutcome, result, thrown, steps >>

\* The remote call in flight resolves with the response text r: withRetry
\* returns it and analyzeImage normalises it: an empty text is the no-response
\* error, a text JSON.parse rejects a SyntaxError, anything else is returned
\* as an array.
AttemptSucceeds(r) ==
    /\ pc = "calling"
    /\ inFlight' = inFlight - 1
    /\ wrOutcome' = [kind |-> "value", error |-> NoError, response |-> r,
                     attempt |-> attempts]
    /\ steps' = Append(steps, "respond")
    /\ LET p == JsonParse(CleanJson(r))
       IN  IF IsEmptyText(r) THEN Throw(NewError({NoResponseMsg}))
           ELSE IF ~p.ok THEN Throw(ParseError(CleanJson(r)))
           ELSE /\ result' = EnsureArray(p)
                /\ pc' = "returned"
                /\ thrown' = thrown
    /\ UNCHANGED << inputVars, effectiveKey, normalizeCalls, normOutcome, parts, retries, delay,
                    attempts, timers, waits, hist, lastError >>

Next ==
    \/ ResolveCredential /\ UNCHANGED notPipeVars
    \/ \E o \in NormalizeOutcomes : NormalizeFails(o) /\ UNCHANGED notPipeVars
    \/ NormalizeSucceeds /\ UNCHANGED notPipeVars
    \/ \E err \in RemoteErrors : AttemptFails(err) /\ UNCHANGED notPipeVars
    \/ TimerFires /\ UNCHANGED notPipeVars
    \/ \E r \in ResponseTexts : AttemptSucceeds(r) /\ UNCHANGED notPipeVars

vars == << pipeVars, notPipeVars >>

Spec == Init /\ [][Next]_vars

\* The invocation under the conditions that the normalisation settles, every
\* remote call settles and every timer fires: a step that can be taken is
\* taken.
LiveSpec == Init /\ [][Next]_vars /\ WF_vars(Next)

-----------------------------------------------------------------------------
(* fileToGenericBase64: the size of the canvas *)

\* Bound of the model: the sides of the images decoded are 1, 2, the sides
\* next to MAX_SIZE, and the multiples of 187 up to MaxSideSteps of them.
MaxSideSteps == 16

MAX_SIZE == 1024

Sides == {1, 2, MAX_SIZE - 1, MAX_SIZE, MAX_SIZE + 1}
         \cup {187 * k : k \in 1..MaxSideSteps}

\* 2^n modulo m.
RECURSIVE Pow2Mod(_, _)
Pow2Mod(n, m) == IF n = 0 THEN 1 % m ELSE (2 * Pow2Mod(n - 1, m)) % m

RECURSIVE Pow2(_)
Pow2(n) == IF n = 0 THEN 1 ELSE 2 * Pow2(n - 1)

\* The e with 2^e <= n < 2^(e+1), for n >= 1.
RECURSIVE Log2(_)
Log2(n) == IF n <= 1 THEN 0 ELSE 1 + Log2(n \div 2)

\* Mutant: the side is not scaled.
ScaledSideKept(side, longest) == side

\* side *= MAX_SIZE / longest, then stored in canvas.width or canvas.height,
\* for longest > MAX_SIZE: the numbers are IEEE 754 doubles and the canvas
\* keeps the integer part.  The quotient MAX_SIZE / longest is rounded to 53
\* bits first; the product is rounded again.  The integer part of the result
\* is that of the exact value unless the exact value is whole, the quotient
\* was rounded down (rem below half of longest) and the product, short of the
\* whole number by side * rem / longest units of the quotient's last place,
\* rounds to the double below it.
ScaledSide(side, longest) ==
    LET exact == (side * MAX_SIZE) \div longest
        whole == (side * MAX_SIZE) % longest = 0
        k     == Log2(longest \div MAX_SIZE)
        rem   == Pow2Mod(63 + k, longest)
        e     == Log2(exact)
        gap   == IF exact = Pow2(e) THEN Pow2(e + k) ELSE Pow2(e + k + 1)
    IN  IF whole /\ exact >= 1 /\ rem # 0 /\ 2 * rem < longest
              /\ 2 * side * rem > gap * longest
        THEN exact - 1
        ELSE exact

\* Mutant: the image is fitted to MAX_SIZE whatever its size.
CanvasSizeAlwaysFit(width, height) ==
    IF width > height
    THEN [width |-> MAX_SIZE, height |-> (height * MAX_SIZE) \div width]
    ELSE [width |-> (width * MAX_SIZE) \div height, height |-> MAX_SIZE]

\* The resize logic of img.onload and the two assignments to the canvas.
CanvasSize(width, height) ==
    IF width > height
    THEN IF width > MAX_SIZE
         THEN [width |-> MAX_SIZE, height |-> ScaledSide(height, width)]
         ELSE [width |-> width, height |-> height]
    ELSE IF height > MAX_SIZE
         THEN [width |-> ScaledSide(width, height), height |-> MAX_SIZE]
         ELSE [width |-> width, height |-> height]

\* The state of analyzeImage while an image is normalised on its own.
PipeIdle ==
    /\ version = "v2"
    /\ apiKey = ""
    /\ envKey = ""
    /\ viteKey = ""
    /\ examples = << >>
    /\ pc = "start"
    /\ effectiveKey = ""
    /\ normalizeCalls = 0
    /\ normOutcome = "none"
    /\ parts = << >>
    /\ retries = 0
    /\ delay = 0
    /\ attempts = 0
    /\ inFlight = 0
    /\ timers = 0
    /\ waits = << >>
    /\ hist = << >>
    /\ lastError = NoError
    /\ wrOutcome = NoOutcome
    /\ result = << >>
    /\ thrown = NoError
    /\ steps = << >>

notNormVars == << pipeVars, runVars, valVars, appVars >>

NotNormIdle == PipeIdle /\ RunsIdle /\ ValidatorIdle /\ AppIdle

\* fileToGenericBase64 is called with a file: the reader starts.
InitNormalizer ==
    /\ fpc = "reading"
    /\ imgWidth = 0
    /\ imgHeight = 0
    /\ canvasWidth = 0
    /\ canvasHeight = 0
    /\ rejection = "none"
    /\ NotNormIdle

\* reader.onerror: the promise is rejected with the event.
ReaderFails ==
    /\ fpc = "reading"
    /\ fpc' = "rejected"
    /\ rejection' = "readError"
    /\ UNCHANGED << imgWidth, imgHeight, canvasWidth, canvasHeight >>

\* reader.onload: the image is made and its source set.
ReaderLoads ==
    /\ fpc = "reading"
    /\ fpc' = "decoding"
    /\ UNCHANGED << imgWidth, imgHeight, canvasWidth, canvasHeight, rejection >>

\* img.onerror: the promise is rejected with the event.
ImageFails ==
    /\ fpc = "decoding"
    /\ fpc' = "rejected"
    /\ rejection' = "decodeError"
    /\ UNCHANGED << imgWidth, imgHeight, canvasWidth, canvasHeight >>

\* img.onload with an image of w by h: the canvas is sized; without a context
\* the promise is rejected, else the image is drawn and the promise resolved.
ImageLoads(w, h, hasContext) ==
    /\ fpc = "decoding"
    /\ imgWidth' = w
    /\ imgHeight' = h
    /\ canvasWidth' = CanvasSize(w, h).width
    /\ canvasHeight' = CanvasSize(w, h).height
    /\ IF hasContext
       THEN fpc' = "resolved" /\ UNCHANGED rejection
       ELSE fpc' = "rejected" /\ rejection' = "noContext"

NextNormalizer ==
    \/ ReaderFails /\ UNCHANGED notNormVars
    \/ ReaderLoads /\ UNCHANGED notNormVars
    \/ ImageFails /\ UNCHANGED notNormVars
    \/ \E w \in Sides, h \in Sides, c \in BOOLEAN :
          ImageLoads(w, h, c) /\ UNCHANGED notNormVars

SpecNormalizer == InitNormalizer /\ [][NextNormalizer]_vars

-----------------------------------------------------------------------------
(* withRetry in concurrent invocations *)

\* The failures the remote calls of concurrent invocations end with.
ConcurrentErrors ==
    {e \in RemoteErrors :
        e.name \in {"ApiError429", "ApiError503", "ApiError400", "NetworkError"}}

\* Mutant: the retries left are counted over all invocations.
RetriesLeftShared(i) ==
    LET RECURSIVE Waited(_)
        Waited(n) == IF n = 0 THEN 0 ELSE Len(runs[n].waits) + Waited(n - 1)
    IN  DefaultRetries - Waited(MaxInvocations)

\* The parameter retries of the withRetry call of invocation i that is
\* current.
RetriesLeft(i) == runs[i].retries

notRunVars == << pipeVars, normVars, valVars, appVars >>

NotRunIdle == PipeIdle /\ NormalizerIdle /\ ValidatorIdle /\ AppIdle

InitConcurrent ==
    /\ RunsIdle
    /\ NotRunIdle

\* Invocation i reaches its withRetry call: the first remote call starts.
RunStarts(i) ==
    /\ runs[i].pc = "idle"
    /\ runs' = [runs EXCEPT ![i] =
                    [pc |-> "calling", retries |-> DefaultRetries,
                     delay |-> BaseDelay(version), attempts |-> 1,
                     waits |-> << >>, fails |-> << >>]]

\* The remote call of invocation i rejects with err.
RunFails(i, err) ==
    /\ runs[i].pc = "calling"
    /\ LET d == RetryDecision(version, ErrorMsg(version, err), RetriesLeft(i))
       IN  runs' = [runs EXCEPT
                       ![i].fails = Append(@, err),
                       ![i].pc = IF d = "retry" THEN "waiting" ELSE "thrown",
                       ![i].waits = IF d = "retry" THEN Append(@, runs[i].delay)
                                    ELSE @]

\* The backoff timer of invocation i fires: its next remote call starts.
RunTimerFires(i) ==
    /\ runs[i].pc = "waiting"
    /\ runs' = [runs EXCEPT
                    ![i].pc = "calling",
                    ![i].retries = @ - 1,
                    ![i].delay = NextDelay(@),
                    ![i].attempts = @ + 1]

\* The remote call of invocation i resolves.
RunSucceeds(i) ==
    /\ runs[i].pc = "calling"
    /\ runs' = [runs EXCEPT ![i].pc = "returned"]

NextConcurrent ==
    \/ \E i \in Invocations : RunStarts(i) /\ UNCHANGED notRunVars
    \/ \E i \in Invocations, err \in ConcurrentErrors :
          RunFails(i, err) /\ UNCHANGED notRunVars
    \/ \E i \in Invocations : RunTimerFires(i) /\ UNCHANGED notRunVars
    \/ \E i \in Invocations : RunSucceeds(i) /\ UNCHANGED notRunVars

SpecConcurrent == InitConcurrent /\ [][NextConcurrent]_vars

-----------------------------------------------------------------------------
(* validateApiKey *)

\* Mutant: the overload signatures count as quota as well.
IsQuotaFailureOrOverload(msg) ==
    \/ includes(msg, "429")
    \/ includes(msg, "quota")
    \/ includes(msg, "resource_exhausted")
    \/ includes(msg, "503")
    \/ includes(msg, "overloaded")

\* The test of the catch block on msg, the error serialised and lower-cased.
IsQuotaFailure(msg) ==
    \/ includes(msg, "429")
    \/ includes(msg, "quota")
    \/ includes(msg, "resource_exhausted")

\* What the catch block makes of the error e of the probe.  JSON.stringify
\* is called outside any try: when it throws, the promise of validateApiKey
\* is rejected with that TypeError and no result is returned.
ClassifyProbeFailure(e) ==
    IF e.jsonThrows THEN [status |-> "threw", message |-> "TypeError"]
    ELSE IF IsQuotaFailure(toLowerCase(e.json))
         THEN [status |-> "quota", message |-> "Quota Exceeded"]
    ELSE [status |-> "invalid", message |-> "Invalid Key or Connection Failed"]

\* The credentials validateApiKey is called with.
ProbeKeys == {"", "user-key"}

Settled(outcome, err) ==
    [key |-> vKey, probes |-> vProbes, error |-> err, status |-> outcome.status,
     message |-> outcome.message]

notValVars == << pipeVars, normVars, runVars, appVars >>

NotValIdle == PipeIdle /\ NormalizerIdle /\ RunsIdle /\ AppIdle

InitValidator ==
    /\ ValidatorIdle
    /\ NotValIdle

\* validateApiKey(k) up to its await: an empty credential is answered at
\* once, else the client is made and the probe call starts.
ValidateStarts(k) ==
    /\ vpc = "idle"
    /\ vCalls < MaxValidations
    /\ vCalls' = vCalls + 1
    /\ IF k = ""
       THEN /\ vResults' = Append(vResults,
                   [key |-> k, probes |-> 0, error |-> NoError,
                    status |-> "invalid", message |-> "Empty Key"])
            /\ UNCHANGED << vpc, vKey, vProbes >>
       ELSE /\ vpc' = "probing"
            /\ vKey' = k
            /\ vProbes' = 1
            /\ UNCHANGED vResults

\* The probe call resolves: the credential is valid.
ProbeSucceeds ==
    /\ vpc = "probing"
    /\ vpc' = "idle"
    /\ vResults' = Append(vResults,
            Settled([status |-> "valid", message |-> ""], NoError))
    /\ UNCHANGED << vKey, vProbes, vCalls >>

\* Mutant: a retryable failure of the probe starts the probe again.
ProbeFailsRetries(err) ==
    /\ vpc = "probing"
    /\ IF RetryDecision("v2", ErrorMsg("v2", err), DefaultRetries - vProbes + 1)
             = "retry"
       THEN /\ vProbes' = vProbes + 1
            /\ UNCHANGED << vpc, vResults >>
       ELSE /\ vpc' = "idle"
            /\ vResults' = Append(vResults, Settled(ClassifyProbeFailure(err), err))
            /\ UNCHANGED vProbes
    /\ UNCHANGED << vKey, vCalls >>

\* The probe call rejects with err: the catch block classifies it.
ProbeFails(err) ==
    /\ vpc = "probing"
    /\ vpc' = "idle"
    /\ vResults' = Append(vResults, Settled(ClassifyProbeFailure(err), err))
    /\ UNCHANGED << vKey, vProbes, vCalls >>

NextValidator ==
    \/ \E k \in ProbeKeys : ValidateStarts(k) /\ UNCHANGED notValVars
    \/ ProbeSucceeds /\ UNCHANGED notValVars
    \/ \E err \in RemoteErrors : ProbeFails(err) /\ UNCHANGED notValVars

SpecValidator == InitValidator /\ [][NextValidator]_vars

-----------------------------------------------------------------------------
(* App: the handlers of the page *)

\* The files of the list.
Listed == {id \in FileIds : files[id] \notin {"unused", "removed"}}

\* Array.prototype.includes on fields.
HasField(name) == \E n \in 1..Len(fields) : fields[n] = name

\* t.fields[type]: the fields of a preset.
PresetFields == [n \in 1..MaxFieldNames |-> n]

\* handleProcessAll returns when there is no file or no field.
ProcessAllRefuses == Listed = {} \/ Len(fields) = 0

\* The request processSingleFile makes for the file id.
Request(id, via) == [file |-> id, fields |-> fields, via |-> via]

notAppVars == << pipeVars, normVars, runVars, valVars >>

NotAppIdle == PipeIdle /\ NormalizerIdle /\ RunsIdle /\ ValidatorIdle

\* Mutant: a bundle whose process.env.API_KEY is defined from API_KEY alone.
DefineApiKeyLegacyOnly(vite, legacy) == legacy

\* The define of vite.config.ts for process.env.API_KEY, from the VITE_API_KEY
\* and the API_KEY of the environment of the build:
\* env.VITE_API_KEY || env.API_KEY || process.env.API_KEY || ''.
DefineApiKey(vite, legacy) == IF vite # "" THEN vite ELSE legacy

\* The page as it loads: the fields and the credential come from the storage
\* of the browser, the list of files is empty.
InitApp ==
    /\ files = [id \in FileIds |-> "unused"]
    /\ fields \in {<< >>, PresetFields}
    /\ isProcessing = FALSE
    /\ userKey \in Credentials("user-key")
    /\ \E vite \in Credentials("vite-key"), legacy \in Credentials("env-key") :
          /\ buildKey = DefineApiKey(vite, legacy)
          /\ metaEnvKey = vite
    /\ isApiKeyModalOpen = FALSE
    /\ calls = [id \in FileIds |-> NoCalls]
    /\ issued = {}
    /\ data = [id \in FileIds |-> "none"]
    /\ referenceExamples = << >>
    /\ promoting = {}
    /\ NotAppIdle

\* ConfigurationPanel.addField: a name not yet among the fields is appended.
AddField(name) ==
    /\ ~isApiKeyModalOpen
    /\ ~isProcessing
    /\ ~HasField(name)
    /\ fields' = Append(fields, name)
    /\ issued' = {}
    /\ UNCHANGED << data, exampleVars >>
    /\ UNCHANGED << files, isProcessing, userKey, buildKey, metaEnvKey, isApiKeyModalOpen, calls >>

\* ConfigurationPanel.removeField, whose button shows while not disabled.
RemoveField(name) ==
    /\ ~isApiKeyModalOpen
    /\ ~isProcessing
    /\ HasField(name)
    /\ fields' = SelectSeq(fields, LAMBDA f : f # name)
    /\ issued' = {}
    /\ UNCHANGED << data, exampleVars >>
    /\ UNCHANGED << files, isProcessing, userKey, buildKey, metaEnvKey, isApiKeyModalOpen, calls >>

\* ConfigurationPanel.loadPreset.
LoadPreset ==
    /\ ~isApiKeyModalOpen
    /\ ~isProcessing
    /\ fields' = PresetFields
    /\ issued' = {}
    /\ UNCHANGED << data, exampleVars >>
    /\ UNCHANGED << files, isProcessing, userKey, buildKey, metaEnvKey, isApiKeyModalOpen, calls >>

\* handleFilesSelected with one file, which gets a fresh id.
FilesSelected(id) ==
    /\ ~isApiKeyModalOpen
    /\ files[id] = "unused"
    /\ \A other \in FileIds : other < id => files[other] # "unused"
    /\ files' = [files EXCEPT ![id] = "IDLE"]
    /\ issued' = {}
    /\ UNCHANGED << data, exampleVars >>
    /\ UNCHANGED << fields, isProcessing, userKey, buildKey, metaEnvKey, isApiKeyModalOpen, calls >>

\* handleRemoveFile.
RemoveFile(id) ==
    /\ ~isApiKeyModalOpen
    /\ id \in Listed
    /\ files' = [files EXCEPT ![id] = "removed"]
    /\ data' = [data EXCEPT ![id] = "none"]
    /\ issued' = {}
    /\ UNCHANGED exampleVars
    /\ UNCHANGED << fields, isProcessing, userKey, buildKey, metaEnvKey, isApiKeyModalOpen, calls >>

\* handleResetWorkspace, confirmed.
ResetWorkspace ==
    /\ ~isApiKeyModalOpen
    /\ fields' = << >>
    /\ files' = [id \in FileIds |-> IF id \in Listed THEN "removed" ELSE files[id]]
    /\ userKey' = ""
    /\ data' = [id \in FileIds |-> "none"]
    /\ referenceExamples' = << >>
    /\ issued' = {}
    /\ UNCHANGED promoting
    /\ UNCHANGED << isProcessing, buildKey, metaEnvKey, isApiKeyModalOpen, calls >>

\* The key button of the header.
OpenApiKeyModal ==
    /\ ~isApiKeyModalOpen
    /\ isApiKeyModalOpen' = TRUE
    /\ issued' = {}
    /\ UNCHANGED << data, exampleVars >>
    /\ UNCHANGED << files, fields, isProcessing, userKey, buildKey, metaEnvKey, calls >>

\* ApiKeyModal.handleSave and handleRemove: onSave(k), onClose(); saving the
\* credential that is set already is what closing the dialog does.
SaveApiKey(k) ==
    /\ isApiKeyModalOpen
    /\ userKey' = k
    /\ isApiKeyModalOpen' = FALSE
    /\ issued' = {}
    /\ UNCHANGED << data, exampleVars >>
    /\ UNCHANGED << files, fields, isProcessing, buildKey, metaEnvKey, calls >>

\* handleProcessAll, by the Process All button, which is disabled during a
\* run: without a credential the dialog opens; else the files that are idle,
\* failed or pending are processed, each by a call of processSingleFile that
\* marks it as processing and calls analyzeImage.
HandleProcessAll ==
    /\ ~isApiKeyModalOpen
    /\ ~isProcessing
    /\ ~ProcessAllRefuses
    /\ IF userKey = "" /\ buildKey = ""
       THEN /\ isApiKeyModalOpen' = TRUE
            /\ issued' = {}
            /\ UNCHANGED << files, isProcessing, calls >>
       ELSE LET filesToProcess ==
                    {id \in Listed : files[id] \in {"IDLE", "ERROR", "PENDING"}}
            IN  /\ isProcessing' = TRUE
                /\ files' = [id \in FileIds |->
                                IF id \in filesToProcess THEN "PROCESSING"
                                ELSE files[id]]
                /\ calls' = [id \in FileIds |->
                                IF id \in filesToProcess
                                THEN [calls[id] EXCEPT !.batch = @ + 1]
                                ELSE calls[id]]
                /\ issued' = {Request(id, "processAll") : id \in filesToProcess}
                /\ UNCHANGED isApiKeyModalOpen
    /\ UNCHANGED << fields, userKey, buildKey, metaEnvKey, data, exampleVars >>

\* A retry button that shows in every row, also for a file under analysis.
HandleRetrySingleAnyRow(id) ==
    /\ ~isApiKeyModalOpen
    /\ id \in Listed
    /\ files[id] \in {"COMPLETED", "ERROR", "PROCESSING"}
    /\ files' = [files EXCEPT ![id] = "PROCESSING"]
    /\ calls' = [calls EXCEPT ![id].single = @ + 1]
    /\ issued' = {Request(id, "retry")}
    /\ UNCHANGED << fields, isProcessing, userKey, buildKey, metaEnvKey, isApiKeyModalOpen,
                    data, exampleVars >>

\* handleRetrySingle, by the retry button of a row, which shows for a file
\* that is completed or failed: processSingleFile is called at once.
HandleRetrySingle(id) ==
    /\ ~isApiKeyModalOpen
    /\ id \in Listed
    /\ files[id] \in {"COMPLETED", "ERROR"}
    /\ files' = [files EXCEPT ![id] = "PROCESSING"]
    /\ calls' = [calls EXCEPT ![id].single = @ + 1]
    /\ issued' = {Request(id, "retry")}
    /\ UNCHANGED << fields, isProcessing, userKey, buildKey, metaEnvKey, isApiKeyModalOpen,
                    data, exampleVars >>

\* An analyzeImage call for the file id settles: processSingleFile marks the
\* file, if it is still listed, as completed or failed.
CallSettles(id, kind, ok) ==
    /\ calls[id][kind] > 0
    /\ calls' = [calls EXCEPT ![id][kind] = @ - 1]
    /\ files' = [files EXCEPT ![id] =
                    IF id \notin Listed THEN @
                    ELSE IF ok THEN "COMPLETED" ELSE "ERROR"]
    /\ data' = [data EXCEPT ![id] = IF id \in Listed /\ ok THEN "analysed" ELSE @]
    /\ issued' = {}
    /\ UNCHANGED exampleVars
    /\ UNCHANGED << fields, isProcessing, userKey, buildKey, metaEnvKey, isApiKeyModalOpen >>

\* A run that is over only when none of its analyses failed, as it would be
\* if processSingleFile let the rejection of analyzeImage through.
ProcessAllEndsUnlessFailed ==
    /\ isProcessing
    /\ \A id \in FileIds : calls[id].batch = 0
    /\ \A id \in Listed : files[id] # "ERROR"
    /\ isProcessing' = FALSE
    /\ issued' = {}
    /\ UNCHANGED << data, exampleVars >>
    /\ UNCHANGED << files, fields, userKey, buildKey, metaEnvKey, isApiKeyModalOpen, calls >>

\* Promise.all of handleProcessAll resolves: the run is over.
ProcessAllEnds ==
    /\ isProcessing
    /\ \A id \in FileIds : calls[id].batch = 0
    /\ isProcessing' = FALSE
    /\ issued' = {}
    /\ UNCHANGED << data, exampleVars >>
    /\ UNCHANGED << files, fields, userKey, buildKey, metaEnvKey, isApiKeyModalOpen, calls >>

\* The reference example of the file id, if there is one.
ExamplesOf(id) ==
    {referenceExamples[n] : n \in {m \in 1..Len(referenceExamples) :
                                      referenceExamples[m].id = id}}

\* Mutant: the cell is written into the array the file holds, which the
\* example made from the file holds as well.
HandleUpdateDataInPlace(id) ==
    /\ ~isApiKeyModalOpen
    /\ id \in Listed
    /\ files[id] = "COMPLETED"
    /\ data[id] # "none"
    /\ data' = [data EXCEPT ![id] = "edited"]
    /\ referenceExamples' =
          [n \in 1..Len(referenceExamples) |->
              IF referenceExamples[n].id = id
              THEN [referenceExamples[n] EXCEPT !.data = "edited"]
              ELSE referenceExamples[n]]
    /\ issued' = {}
    /\ UNCHANGED << files, fields, isProcessing, userKey, buildKey, metaEnvKey,
                    isApiKeyModalOpen, calls, promoting >>

\* handleUpdateData, by a cell of a completed file: the file gets a copy of
\* its records with the cell changed; the array it held is not written.
HandleUpdateData(id) ==
    /\ ~isApiKeyModalOpen
    /\ id \in Listed
    /\ files[id] = "COMPLETED"
    /\ data[id] # "none"
    /\ data' = [data EXCEPT ![id] = "edited"]
    /\ issued' = {}
    /\ UNCHANGED << files, fields, isProcessing, userKey, buildKey, metaEnvKey,
                    isApiKeyModalOpen, calls, exampleVars >>

\* handleAddToExamples up to its await, by the button of a completed file
\* that is no example yet: fileToGenericBase64 starts; the file object given,
\* with the records it has now, is kept by the call.
HandleAddToExamples(id) ==
    /\ ~isApiKeyModalOpen
    /\ id \in Listed
    /\ files[id] = "COMPLETED"
    /\ ExamplesOf(id) = {}
    /\ data[id] # "none"
    /\ Cardinality(promoting) < MaxPromotions
    /\ promoting' = promoting \cup {[id |-> id, data |-> data[id]]}
    /\ issued' = {}
    /\ UNCHANGED << files, fields, isProcessing, userKey, buildKey, metaEnvKey,
                    isApiKeyModalOpen, calls, data, referenceExamples >>

\* fileToGenericBase64 settles for the call p of handleAddToExamples: when it
\* resolved, the example is appended unless the file has one already.
AddToExamplesSettles(p, ok) ==
    /\ p \in promoting
    /\ promoting' = promoting \ {p}
    /\ referenceExamples' =
          IF ok /\ ExamplesOf(p.id) = {}
          THEN Append(referenceExamples,
                      [id |-> p.id, previewUrl |-> p.id, data |-> p.data,
                       base64 |-> p.id])
          ELSE referenceExamples
    /\ issued' = {}
    /\ UNCHANGED << files, fields, isProcessing, userKey, buildKey, metaEnvKey,
                    isApiKeyModalOpen, calls, data >>

\* handleRemoveExample.
HandleRemoveExample(id) ==
    /\ ~isApiKeyModalOpen
    /\ ExamplesOf(id) # {}
    /\ referenceExamples' = SelectSeq(referenceExamples, LAMBDA e : e.id # id)
    /\ issued' = {}
    /\ UNCHANGED << files, fields, isProcessing, userKey, buildKey, metaEnvKey,
                    isApiKeyModalOpen, calls, data, promoting >>

NextApp ==
    \/ \E name \in FieldNames : AddField(name) /\ UNCHANGED notAppVars
    \/ \E name \in FieldNames : RemoveField(name) /\ UNCHANGED notAppVars
    \/ LoadPreset /\ UNCHANGED notAppVars
    \/ \E id \in FileIds : FilesSelected(id) /\ UNCHANGED notAppVars
    \/ \E id \in FileIds : RemoveFile(id) /\ UNCHANGED notAppVars
    \/ ResetWorkspace /\ UNCHANGED notAppVars
    \/ OpenApiKeyModal /\ UNCHANGED notAppVars
    \/ \E k \in Credentials("user-key") : SaveApiKey(k) /\ UNCHANGED notAppVars
    \/ HandleProcessAll /\ UNCHANGED notAppVars
    \/ \E id \in FileIds : HandleRetrySingle(id) /\ UNCHANGED notAppVars
    \/ \E id \in FileIds, kind \in {"batch", "single"}, ok \in BOOLEAN :
          CallSettles(id, kind, ok) /\ UNCHANGED notAppVars
    \/ ProcessAllEnds /\ UNCHANGED notAppVars

\* The page with its configuration, its credential and its analyses; the
\* records are not edited and no example is made.
SpecApp == InitApp /\ [][NextApp]_vars

\* The page with a field schema and a credential of the user, which stay as
\* they are until a reset.
InitProcessing ==
    /\ InitApp
    /\ fields = PresetFields
    /\ userKey = "user-key"
    /\ buildKey = ""

\* The steps that bear on the analyses: uploads, removals, the reset, Process
\* All, the retry of a row and the settlements.
NextProcessing ==
    \/ \E id \in FileIds : FilesSelected(id) /\ UNCHANGED notAppVars
    \/ \E id \in FileIds : RemoveFile(id) /\ UNCHANGED notAppVars
    \/ ResetWorkspace /\ UNCHANGED notAppVars
    \/ HandleProcessAll /\ UNCHANGED notAppVars
    \/ \E id \in FileIds : HandleRetrySingle(id) /\ UNCHANGED notAppVars
    \/ \E id \in FileIds, kind \in {"batch", "single"}, ok \in BOOLEAN :
          CallSettles(id, kind, ok) /\ UNCHANGED notAppVars
    \/ ProcessAllEnds /\ UNCHANGED notAppVars

\* The analyses when every analyzeImage call that was started settles, and
\* the continuation of a settled Promise.all runs, as the job queue of the
\* engine has it.
LiveSpecProcessing ==
    /\ InitProcessing
    /\ [][NextProcessing]_vars
    /\ \A id \in FileIds, kind \in {"batch", "single"} :
          WF_vars(\E ok \in BOOLEAN : CallSettles(id, kind, ok) /\ UNCHANGED notAppVars)
    /\ WF_vars(ProcessAllEnds /\ UNCHANGED notAppVars)

\* The page with a field schema and a credential that are set and stay as
\* they are until a reset: files are uploaded, analysed and removed, records
\* edited, examples made and removed.
InitExamples ==
    /\ InitApp
    /\ fields = PresetFields
    /\ userKey = "user-key"
    /\ buildKey = ""

NextExamples ==
    \/ \E id \in FileIds : FilesSelected(id) /\ UNCHANGED notAppVars
    \/ \E id \in FileIds : RemoveFile(id) /\ UNCHANGED notAppVars
    \/ ResetWorkspace /\ UNCHANGED notAppVars
    \/ HandleProcessAll /\ UNCHANGED notAppVars
    \/ \E id \in FileIds : HandleRetrySingle(id) /\ UNCHANGED notAppVars
    \/ \E id \in FileIds, kind \in {"batch", "single"}, ok \in BOOLEAN :
          CallSettles(id, kind, ok) /\ UNCHANGED notAppVars
    \/ ProcessAllEnds /\ UNCHANGED notAppVars
    \/ \E id \in FileIds : HandleUpdateData(id) /\ UNCHANGED notAppVars
    \/ \E id \in FileIds : HandleAddToExamples(id) /\ UNCHANGED notAppVars
    \/ \E p \in promoting, ok \in BOOLEAN :
          AddToExamplesSettles(p, ok) /\ UNCHANGED notAppVars
    \/ \E id \in FileIds : HandleRemoveExample(id) /\ UNCHANGED notAppVars

SpecExamples == InitExamples /\ [][NextExamples]_vars

-----------------------------------------------------------------------------
(* Properties of the Retry Controller *)

Last(s) == s[Len(s)]

\* A failure whose error carries a rate-limit signature, in the text
\* withRetry searches or in any other text of the error, and no credential
\* signature.
QuotaOnly(h) == h.anyRate /\ ~h.anyInvalid

\* A failure that matched none of the signatures.
Unclassified(h) == ~h.invalid /\ ~h.rate /\ ~h.overload

InvalidCredentialError == NewError({InvalidKeyMsg})

\* C1: when the first failure of the remote operation matches a
\* credential-invalid signature, withRetry has made exactly one attempt, has
\* not waited and does not retry, and has settled with the invalid-credential
\* error.
C1_InvalidCredentialNotRetried ==
    (hist # << >> /\ hist[1].invalid) =>
        /\ attempts = 1
        /\ inFlight = 0
        /\ waits = << >>
        /\ timers = 0
        /\ pc = "thrown"
        /\ wrOutcome.kind = "error"
        /\ wrOutcome.error = InvalidCredentialError

C1_Witness ==
    /\ hist # << >> /\ hist[1].invalid
    /\ version = "v2"
    /\ wrOutcome.kind = "error"

\* C2: when four consecutive attempts fail with a rate-limit signature,
\* withRetry has made exactly four attempts and three waits, starts nothing
\* more, returns no value and has thrown the error of the fourth attempt.
C2_QuotaExhaustedPropagates ==
    (Len(hist) >= DefaultRetries + 1 /\ \A i \in DOMAIN hist : QuotaOnly(hist[i])) =>
        /\ attempts = DefaultRetries + 1
        /\ Len(hist) = DefaultRetries + 1
        /\ Len(waits) = DefaultRetries
        /\ inFlight = 0
        /\ timers = 0
        /\ pc = "thrown"
        /\ wrOutcome.kind = "error"
        /\ wrOutcome.error = lastError
        /\ wrOutcome.error.attempt = DefaultRetries + 1

C2_Witness ==
    /\ Len(hist) = DefaultRetries + 1
    /\ \A i \in DOMAIN hist : QuotaOnly(hist[i])
    /\ pc = "thrown"
    /\ wrOutcome.error.name = "ApiError429"

\* C3: when the first three attempts fail with a rate-limit signature and the
\* fourth succeeds, withRetry returns the fourth attempt's response after
\* exactly three waits of baseDelay, 2 x baseDelay and 4 x baseDelay, and
\* starts no further attempt.
C3_SuccessAfterThreeRetries ==
    (/\ Len(hist) = DefaultRetries
     /\ \A i \in DOMAIN hist : QuotaOnly(hist[i])
     /\ wrOutcome.kind = "value") =>
        /\ attempts = DefaultRetries + 1
        /\ wrOutcome.attempt = DefaultRetries + 1
        /\ waits = << BaseDelay(version), 2 * BaseDelay(version),
                      4 * BaseDelay(version) >>
        /\ inFlight = 0
        /\ timers = 0
        /\ pc \in {"returned", "thrown"}

C3_Witness ==
    /\ Len(hist) = DefaultRetries
    /\ \A i \in DOMAIN hist : QuotaOnly(hist[i])
    /\ wrOutcome.kind = "value"
    /\ pc = "returned"

\* C4: one withRetry run makes at most 4 remote attempts and at most 3
\* waits, and every retryable failure, rate-limit or server-overload alike,
\* takes one retry from the same budget of 3.
C4_RetryBudget ==
    /\ attempts <= DefaultRetries + 1
    /\ Len(waits) <= DefaultRetries
    /\ Len(hist) <= attempts
    /\ pc = "calling" => retries + Len(hist) = DefaultRetries
    /\ pc = "waiting" => retries + Len(hist) = DefaultRetries + 1 /\ retries > 0

C4_Witness ==
    /\ attempts = DefaultRetries + 1
    /\ \E i, j \in DOMAIN hist :
          /\ hist[i].rate /\ ~hist[i].overload
          /\ hist[j].overload /\ ~hist[j].rate

\* C5: when an attempt fails with an error that matches none of the
\* signatures, withRetry neither waits nor retries after it, and throws that
\* very error to its caller.
C5_UnclassifiedPropagatedAsIs ==
    (hist # << >> /\ Unclassified(Last(hist))) =>
        /\ attempts = Len(hist)
        /\ Len(waits) = Len(hist) - 1
        /\ inFlight = 0
        /\ timers = 0
        /\ pc = "thrown"
        /\ wrOutcome.kind = "error"
        /\ wrOutcome.error = lastError
        /\ wrOutcome.error.attempt = attempts
        /\ \E err \in RemoteErrors : wrOutcome.error = [err EXCEPT !.attempt = attempts]

C5_Witness ==
    /\ Len(hist) = 1
    /\ Unclassified(hist[1])
    /\ wrOutcome.error.name = "NetworkError"

\* C6: at most one remote attempt is in flight, no backoff timer is pending
\* while an attempt is in flight, and an attempt after the first starts only
\* when the attempt before it has failed and the wait that followed that
\* failure has elapsed.
C6_Sequential ==
    /\ [](inFlight <= 1 /\ timers <= 1 /\ ~(inFlight > 0 /\ timers > 0))
    /\ [][ (attempts' # attempts /\ attempts >= 1) =>
              /\ attempts' = attempts + 1
              /\ inFlight = 0
              /\ Len(hist) = attempts
              /\ Len(waits) = attempts
              /\ timers = 1 /\ timers' = 0 ]_vars

C6_Witness ==
    /\ attempts = 2
    /\ inFlight = 1
    /\ timers = 0
    /\ Len(waits) = 1

-----------------------------------------------------------------------------
(* Properties of the Prompt Composer and the Credential Resolver *)

\* The request has been composed: the first remote call has started.
Composed == attempts >= 1

\* The credential has been resolved.
Resolved == steps # << >>

FewShotParts == { i \in DOMAIN parts : parts[i].role \in {"example", "exampleOutput"} }

\* C7: the composed request holds no few-shot example when no reference
\* example was passed, and otherwise exactly one, the last of the list: its
\* image part and then its example-output text part, before the target image
\* and the closing instruction.
C7_OnlyLastExample ==
    Composed =>
        /\ examples = << >> => FewShotParts = {} /\ Len(parts) = 2
        /\ examples # << >> =>
              /\ FewShotParts = {1, 2}
              /\ Len(parts) = 4
              /\ parts[1] = [type |-> "inlineData", role |-> "example",
                             ref |-> examples[Len(examples)]]
              /\ parts[2] = [type |-> "text", role |-> "exampleOutput",
                             ref |-> examples[Len(examples)]]
        /\ parts[Len(parts) - 1].role = "target"
        /\ parts[Len(parts)].role = "instruction"

C7_Witness ==
    /\ Composed
    /\ examples = << 1, 2, 3 >>
    /\ parts[1].ref = 3

\* C8: the effective credential is the user-supplied one whenever that is not
\* empty, whatever the deployment credentials are; with an empty user-supplied
\* one it is process.env.API_KEY when that is not empty, and in the later
\* revision import.meta.env.VITE_API_KEY when that is the only one not empty.
C8_UserCredentialFirst ==
    Resolved =>
        /\ apiKey # "" => effectiveKey = apiKey
        /\ (apiKey = "" /\ envKey # "") => effectiveKey = envKey
        /\ (version = "v2" /\ apiKey = "" /\ envKey = "" /\ viteKey # "") =>
              effectiveKey = viteKey

C8_Witness ==
    /\ Resolved
    /\ version = "v2"
    /\ apiKey # "" /\ envKey # "" /\ viteKey # ""
    /\ effectiveKey = "user-key"

\* The invocation has no credential to use: the user-supplied one is empty and
\* so is every deployment credential its revision reads.
NoCredential ==
    /\ apiKey = ""
    /\ envKey = ""
    /\ version = "v2" => viteKey = ""

\* C9: with no credential to use, analyzeImage throws the missing-credential
\* error and nothing else happens: the image is not normalised, no request is
\* composed, no remote call is made, no wait is started.
C9_MissingCredentialStops ==
    (Resolved /\ NoCredential) =>
        /\ pc = "thrown"
        /\ thrown.message = {MissingKeyMsg}
        /\ effectiveKey = ""
        /\ normalizeCalls = 0
        /\ parts = << >>
        /\ attempts = 0
        /\ inFlight = 0
        /\ timers = 0
        /\ waits = << >>
        /\ steps = << "resolve" >>

C9_Witness ==
    /\ Resolved
    /\ NoCredential
    /\ version = "v2"
    /\ pc = "thrown"

-----------------------------------------------------------------------------
(* Properties of the Response Normalizer *)

\* The JSON text of an array of values, and of a value that is not an array.
RECURSIVE JoinItems(_)
JoinItems(items) ==
    IF Len(items) = 1 THEN << items[1] >>
    ELSE << items[1], "," >> \o JoinItems(Tail(items))

ArrayText(items) ==
    IF items = << >> THEN << "[", "]" >> ELSE << "[" >> \o JoinItems(items) \o << "]" >>

\* A response text without its whitespace and its fence markers.
Bare(t) == SelectSeq(t, LAMBDA x : x \notin {"ws", "fence_json", "fence"})

SampleArrays == UNION { [1..n -> {"objA", "objB"}] : n \in 0..3 }

\* C10: what analyzeImage returns is an array: the elements, unchanged and in
\* order, of the array the response text denotes, or the single-element array
\* of the value it denotes when that is not an array.
C10_AlwaysArray ==
    pc = "returned" =>
        /\ wrOutcome.kind = "value"
        /\ \A items \in SampleArrays :
              Bare(wrOutcome.response) = ArrayText(items) => result = items
        /\ \A v \in JsonAtoms :
              Bare(wrOutcome.response) = << v >> => result = << v >>
        /\ \/ \E items \in SampleArrays : Bare(wrOutcome.response) = ArrayText(items)
           \/ \E v \in JsonAtoms : Bare(wrOutcome.response) = << v >>

C10_Witness ==
    /\ pc = "returned"
    /\ wrOutcome.response = << "ws", "fence_json", "ws", "objB", "ws", "fence", "ws" >>
    /\ result = << "objB" >>

-----------------------------------------------------------------------------
(* Properties of the response handling *)

\* withRetry returned the response text of a remote call that succeeded.
Responded == wrOutcome.kind = "value"

\* Nothing of the remote call goes on: no call in flight, no timer set, and
\* no attempt started after the one that returned.
NoFurtherAttempt ==
    /\ attempts = wrOutcome.attempt
    /\ inFlight = 0
    /\ timers = 0

\* C11: when the remote call succeeded with an empty response text,
\* analyzeImage has thrown the no-response error and the number of remote
\* attempts is the one at which the call returned: nothing is in flight and
\* no timer is set.
C11_EmptyResponseIsTerminal ==
    (Responded /\ wrOutcome.response = << >>) =>
        /\ pc = "thrown"
        /\ thrown.message = {NoResponseMsg}
        /\ result = << >>
        /\ NoFurtherAttempt

\* An empty response came after two retries.
C11_Witness ==
    /\ Responded
    /\ wrOutcome.response = << >>
    /\ wrOutcome.attempt = 3
    /\ pc = "thrown"

\* The response text, trimmed and without its fence, is not valid JSON.
Malformed(r) == r # << >> /\ ~JsonParse(CleanJson(r)).ok

\* The error thrown is the one the parser raised: it carries the parser's
\* message.
IsMalformedResponseFailure(e) == SyntaxErrorMsg \in e.message

\* C12: when the response text, trimmed and without its fence, is not valid
\* JSON, analyzeImage has thrown a malformed-response failure, has returned no
\* records and has not issued the remote call again.
C12_MalformedResponseFailure ==
    (Responded /\ Malformed(wrOutcome.response)) =>
        /\ pc = "thrown"
        /\ IsMalformedResponseFailure(thrown)
        /\ result = << >>
        /\ NoFurtherAttempt

-----------------------------------------------------------------------------
(* Properties of the order of the pipeline *)

PipelineOrder == << "resolve", "normalize", "compose", "call", "respond" >>

IsPrefix(a, b) == Len(a) <= Len(b) /\ a = SubSeq(b, 1, Len(a))

Started(step) == \E i \in 1..Len(steps) : steps[i] = step

\* C15: the steps of an invocation start in the order resolve credential,
\* normalize image, compose prompt, remote call, normalize response, each once;
\* a step has started only when the one before it completed (a credential was
\* found, the image was normalised, the parts were composed, the remote call
\* returned a value); and after a step failed no later step has started.
C15_StepsInOrder ==
    /\ IsPrefix(steps, PipelineOrder)
    /\ Started("normalize") => effectiveKey # ""
    /\ Started("compose") => normOutcome = "ok"
    /\ Started("call") => parts = ComposeParts(examples) /\ attempts >= 1
    /\ Started("respond") => Responded
    /\ (pc = "thrown" /\ effectiveKey = "") => steps = SubSeq(PipelineOrder, 1, 1)
    /\ normOutcome \notin {"none", "ok"} =>
           /\ pc = "thrown"
           /\ steps = SubSeq(PipelineOrder, 1, 2)
           /\ attempts = 0
    /\ wrOutcome.kind = "error" =>
           /\ pc = "thrown"
           /\ steps = SubSeq(PipelineOrder, 1, 4)
    /\ ~Started("call") => attempts = 0 /\ wrOutcome = NoOutcome
    /\ ~Started("respond") => result = << >> /\ pc # "returned"

\* Every step ran, the remote call after one retry, and records came back.
C15_Witness ==
    /\ steps = PipelineOrder
    /\ pc = "returned"
    /\ attempts = 2
    /\ result # << >>

-----------------------------------------------------------------------------
(* Properties of the messages that reach the caller *)

\* withRetry gave up on a retryable failure: the last attempt matched a
\* rate-limit or overload signature and no retry was left.
RetriesExhausted ==
    /\ wrOutcome.kind = "error"
    /\ retries = 0
    /\ hist # << >>
    /\ ~Last(hist).invalid
    /\ Last(hist).rate \/ Last(hist).overload

\* withRetry ended on an invalid-credential failure.
InvalidCredentialFailure ==
    /\ wrOutcome.kind = "error"
    /\ hist # << >>
    /\ Last(hist).invalid

\* The message tells the user to try again later.
IsRetryLaterMessage(e) ==
    e.hasMessage /\ (RateLimitMsg2 \in e.message \/ ServerBusyMsg \in e.message)

\* C20: a failure of analyzeImage that comes from a rate-limit or overload
\* error after the retries ran out reaches the caller with a retry-later
\* message, whichever retryable signature the error matched; a failure that
\* comes from an invalid credential reaches the caller with the invalid-API-key
\* message.
\* It is stated of the later revision, whose catch block writes the messages.
C20_FriendlyMessages ==
    version = "v2" =>
        /\ RetriesExhausted => pc = "thrown" /\ IsRetryLaterMessage(thrown)
        /\ InvalidCredentialFailure =>
               pc = "thrown" /\ thrown.message = {InvalidKeyMsg}

-----------------------------------------------------------------------------
(* Properties of the Image Normalizer *)

Max(a, b) == IF a >= b THEN a ELSE b
Min(a, b) == IF a <= b THEN a ELSE b

\* The canvas has been sized for the image decoded.
Sized == fpc = "resolved" \/ (fpc = "rejected" /\ rejection = "noContext")

\* C13: when the longest side of the image is at most MAX_SIZE, the canvas,
\* and with it the image put out, has the width and the height of the image.
C13_SmallImageKeepsSize ==
    (Sized /\ Max(imgWidth, imgHeight) <= MAX_SIZE) =>
        /\ canvasWidth = imgWidth
        /\ canvasHeight = imgHeight

\* An image whose longest side is exactly MAX_SIZE was put out.
C13_Witness ==
    /\ fpc = "resolved"
    /\ imgWidth = MAX_SIZE
    /\ imgHeight = 187
    /\ canvasWidth = MAX_SIZE

\* C14 as stated: when the longest side of the image exceeds MAX_SIZE, the
\* longest side put out is MAX_SIZE and the other side is the other side of
\* the image times MAX_SIZE / longest, rounded to an integer (down or up).
C14_ScaledToMaxSize ==
    (Sized /\ Max(imgWidth, imgHeight) > MAX_SIZE) =>
        LET longest == Max(imgWidth, imgHeight)
            other   == Min(imgWidth, imgHeight)
            out     == Min(canvasWidth, canvasHeight)
        IN  /\ Max(canvasWidth, canvasHeight) = MAX_SIZE
            /\ out * longest > other * MAX_SIZE - longest
            /\ out * longest < other * MAX_SIZE + longest

\* C14 as amended: when the longest side of the image exceeds MAX_SIZE, the
\* longest side put out is MAX_SIZE and the other side is an integer not
\* above the other side of the image times MAX_SIZE / longest and at most 1
\* below it (1 below when the product is whole and the floating-point
\* product falls short of it).
C14_ScaledWithinOne ==
    (Sized /\ Max(imgWidth, imgHeight) > MAX_SIZE) =>
        LET longest == Max(imgWidth, imgHeight)
            other   == Min(imgWidth, imgHeight)
            out     == Min(canvasWidth, canvasHeight)
        IN  /\ Max(canvasWidth, canvasHeight) = MAX_SIZE
            /\ (imgWidth > imgHeight) => canvasWidth = MAX_SIZE
            /\ (imgWidth <= imgHeight) => canvasHeight = MAX_SIZE
            /\ out * longest <= other * MAX_SIZE
            /\ out * longest >= other * MAX_SIZE - longest

\* An image of 1122 by 561 was put out as 1024 by 511.
C14_Witness ==
    /\ fpc = "resolved"
    /\ imgWidth = 1122
    /\ imgHeight = 561
    /\ canvasWidth = MAX_SIZE
    /\ canvasHeight = 511

-----------------------------------------------------------------------------
(* Properties of concurrent invocations *)

\* What a withRetry call that runs alone has done once its remote calls
\* ended with the failures f, in order: the delays waited and the remote
\* calls started (the next one included, which starts when the timer fires).
RECURSIVE Alone(_, _, _)
Alone(f, retriesLeft, baseDelay) ==
    IF f = << >> THEN [waits |-> << >>, attempts |-> 1]
    ELSE IF RetryDecision(version, ErrorMsg(version, Head(f)), retriesLeft) # "retry"
         THEN [waits |-> << >>, attempts |-> 1]
    ELSE LET rest == Alone(Tail(f), retriesLeft - 1, NextDelay(baseDelay))
         IN  [waits |-> << baseDelay >> \o rest.waits,
              attempts |-> 1 + rest.attempts]

\* C16: whatever the other invocations do, the delays an invocation has
\* waited and the remote calls it has started are those of an invocation that
\* runs alone and meets the same failures.
C16_IndependentRetries ==
    \A i \in Invocations :
        runs[i].pc # "idle" =>
            LET alone == Alone(runs[i].fails, DefaultRetries, BaseDelay(version))
            IN  /\ runs[i].waits = alone.waits
                /\ runs[i].attempts =
                       IF runs[i].pc = "waiting" THEN alone.attempts - 1
                       ELSE alone.attempts

\* One invocation used up its retries while another started its first retry.
C16_Witness ==
    /\ runs[1].pc = "thrown"
    /\ Len(runs[1].waits) = DefaultRetries
    /\ runs[2].pc = "calling"
    /\ Len(runs[2].waits) = 1
    /\ runs[2].attempts = 2

-----------------------------------------------------------------------------
(* Properties of validateApiKey *)

Results == {vResults[n] : n \in 1..Len(vResults)}

\* C17: an invocation of validateApiKey starts at most one probe call,
\* whatever the probe fails with, and settles as soon as the probe does; with
\* an empty credential it answers invalid and starts no probe; when the probe
\* succeeds it answers valid.
C17_SingleProbe ==
    /\ vProbes <= 1
    /\ vpc = "probing" => vProbes = 1 /\ Len(vResults) = vCalls - 1
    /\ vpc = "idle" => Len(vResults) = vCalls
    /\ \A r \in Results :
          /\ r.probes <= 1
          /\ r.key = "" => r.status = "invalid" /\ r.probes = 0
          /\ (r.key # "" /\ r.error = NoError) => r.status = "valid" /\ r.probes = 1
          /\ r.error # NoError => r.status # "valid" /\ r.probes = 1

\* An empty credential was refused, then a probe failed on a retryable error
\* and was not made again.
C17_Witness ==
    /\ Len(vResults) = 2
    /\ vResults[1].key = ""
    /\ vResults[1].status = "invalid"
    /\ vResults[2].error.name = "ApiError429"
    /\ vResults[2].probes = 1
    /\ vpc = "idle"

\* withRetry would retry the error: it matches a rate-limit or overload
\* signature and no credential signature.
Retryable(e) == RetryDecision("v2", ErrorMsg("v2", e), DefaultRetries) = "retry"

\* C18 as stated: a probe failure is answered quota exactly when withRetry
\* would retry the same error, and invalid for every other failure.
C18_QuotaIffRetryable ==
    \A r \in Results :
        r.error # NoError =>
            /\ r.status = "quota" <=> Retryable(r.error)
            /\ ~Retryable(r.error) => r.status = "invalid"

\* C18 as amended: a probe failure whose error can be serialised is answered
\* quota exactly when the serialised error, lower-cased, holds "429", "quota"
\* or "resource_exhausted", whatever else it holds, and invalid otherwise, so
\* that an overload error ("503", "overloaded") is answered invalid; a failure
\* whose error cannot be serialised gets no answer: validateApiKey throws.
C18_QuotaSignaturesOnly ==
    \A r \in Results :
        r.error # NoError =>
            LET text == toLowerCase(r.error.json)
                quota == \E sig \in {"429", "quota", "resource_exhausted"} :
                            includes(text, sig)
            IN  /\ r.error.jsonThrows => r.status = "threw"
                /\ ~r.error.jsonThrows =>
                       /\ r.status \in {"quota", "invalid"}
                       /\ r.status = "quota" <=> quota
                       /\ (r.status = "quota" /\ ~IsInvalidKey(text))
                              => Retryable(r.error)

\* A probe failed on an overload error, which withRetry would retry, and
\* was answered invalid; another failed on a quota error and was answered
\* quota.
C18_Witness ==
    /\ Len(vResults) = 2
    /\ vResults[1].error.name = "ApiError503"
    /\ Retryable(vResults[1].error)
    /\ vResults[1].status = "invalid"
    /\ vResults[2].error.name = "ApiError429"
    /\ vResults[2].status = "quota"

-----------------------------------------------------------------------------
(* Properties of App *)

\* C19: no analyzeImage call is started while the field schema is empty:
\* every call handleProcessAll or handleRetrySingle starts is made with at
\* least one field.
C19_NoRequestWithoutFields ==
    \A r \in issued : Len(r.fields) > 0

-----------------------------------------------------------------------------
(* Properties of the failures of an invocation *)

\* fileToGenericBase64 rejected.
NormalizerFailed == normOutcome \notin {"none", "ok"}

\* C21: when the image normalizer fails, analyzeImage has thrown, no remote
\* call was started, no delay was waited and no timer set, and the
\* normalisation was attempted once.
C21_NormalizerFailureIsTerminal ==
    NormalizerFailed =>
        /\ pc = "thrown"
        /\ thrown # NoError
        /\ attempts = 0
        /\ inFlight = 0
        /\ timers = 0
        /\ waits = << >>
        /\ hist = << >>
        /\ normalizeCalls = 1
        /\ result = << >>

\* The image could not be decoded.
C21_Witness ==
    /\ normOutcome = "decodeError"
    /\ pc = "thrown"
    /\ normalizeCalls = 1

\* The failures before the last were retried and the last one matched a
\* credential signature or none at all.
NonRetryableOnRetry ==
    /\ Len(hist) >= 2
    /\ Last(hist).invalid \/ Unclassified(Last(hist))

\* C23: when a retry attempt fails with a failure that is not retryable,
\* withRetry has ended: the attempts are the failures so far, nothing is in
\* flight, no timer is set, and the only delays waited are those before the
\* retries made.
C23_NonRetryableEndsRun ==
    NonRetryableOnRetry =>
        /\ pc = "thrown"
        /\ wrOutcome.kind = "error"
        /\ wrOutcome.attempt = Len(hist)
        /\ attempts = Len(hist)
        /\ inFlight = 0
        /\ timers = 0
        /\ Len(waits) = Len(hist) - 1
        /\ retries = DefaultRetries - (Len(hist) - 1)

\* The second attempt failed on an unclassified error with two retries left.
C23_Witness ==
    /\ Len(hist) = 2
    /\ hist[1].rate
    /\ Unclassified(hist[2])
    /\ retries = 2
    /\ pc = "thrown"

\* The text withRetry searched matched a credential signature and a
\* retryable one.
BothSignatures(h) == h.invalid /\ (h.rate \/ h.overload)

\* C24: when the text of a failure matches both a credential signature and a
\* rate-limit or overload signature, withRetry has ended with the
\* invalid-credential error without waiting for that failure, whatever the
\* retries left.
C24_CredentialSignatureWins ==
    (hist # << >> /\ BothSignatures(Last(hist))) =>
        /\ pc = "thrown"
        /\ wrOutcome.kind = "error"
        /\ wrOutcome.error = InvalidCredentialError
        /\ wrOutcome.attempt = Len(hist)
        /\ attempts = Len(hist)
        /\ inFlight = 0
        /\ timers = 0
        /\ Len(waits) = Len(hist) - 1

\* The first failure matched both, with every retry left.
C24_Witness ==
    /\ Len(hist) = 1
    /\ BothSignatures(hist[1])
    /\ retries = DefaultRetries
    /\ thrown.message = {InvalidKeyMsg}

\* The failure came from a remote error that carries a rate-limit or an
\* overload signature in some text of it.
FromRetryableError ==
    /\ wrOutcome.kind = "error"
    /\ hist # << >>
    /\ Last(hist).anyRate \/ Last(hist).anyOverload

\* C25: a failure of analyzeImage that did not come from a rate-limit or
\* overload remote error does not reach the caller with the rate-limit or
\* the server-busy message.
C25_NoFalseRetryLater ==
    (pc = "thrown" /\ ~FromRetryableError) => ~IsRetryLaterMessage(thrown)

\* The invocation has settled.
HasSettled == pc \in {"returned", "thrown"}

\* C26: every invocation eventually settles, when the normalisation settles,
\* every remote call settles and every timer fires.
C26_EventuallySettles == <>HasSettled

\* The invocation settled after it used every retry.
C26_Witness ==
    /\ HasSettled
    /\ attempts = DefaultRetries + 1
    /\ Len(waits) = DefaultRetries

-----------------------------------------------------------------------------
(* Properties of the reference examples *)

Examples == {referenceExamples[n] : n \in 1..Len(referenceExamples)}

\* C22: a step changes no reference example: an example whose file still
\* has an example after the step is that same example, with the records and
\* the image it was made with; examples only come, by handleAddToExamples,
\* and go, by handleRemoveExample and handleResetWorkspace.
C22_ExamplesImmutable ==
    [][\A e \in Examples :
          (\E n \in 1..Len(referenceExamples') : referenceExamples'[n].id = e.id)
              => (\E n \in 1..Len(referenceExamples') : referenceExamples'[n] = e)]_vars

\* The example of one file still has the records as analysed while the file
\* was edited since; the example of another was made of edited records and
\* the file was analysed again since.
C22_Witness ==
    /\ \E e \in Examples :
          e.data = "analysed" /\ data[e.id] = "edited"
    /\ \E e \in Examples :
          e.data = "edited" /\ data[e.id] = "analysed" /\ files[e.id] = "COMPLETED"

\* The analyzeImage calls in flight for the file id.
InFlight(id) == calls[id].batch + calls[id].single

\* C27: in every interleaving of Process All, of the retry of a row and of
\* the completions that the page allows, at most one analyzeImage call is in
\* flight for a file at any time.
C27_OneCallPerFile == \A id \in FileIds : InFlight(id) <= 1

\* A run of Process All is under way with the call of one file in flight,
\* while another file, which that run had finished, is analysed again by the
\* retry button of its row.
C27_Witness ==
    /\ isProcessing
    /\ \E a, b \in Listed :
          /\ a # b
          /\ calls[a] = [batch |-> 1, single |-> 0]
          /\ calls[b] = [batch |-> 0, single |-> 1]
          /\ files[a] = "PROCESSING"
          /\ files[b] = "PROCESSING"

\* The file id was taken by the run of Process All and its call is in flight.
InRun(id) == isProcessing /\ calls[id].batch > 0

\* The file id has its result, or is no longer in the list.
Finished(id) == id \in Listed => files[id] \in {"COMPLETED", "ERROR"}

\* C28: when every analyzeImage call settles, every file that a run of
\* Process All has taken and that is still in the list comes to the status
\* COMPLETED or ERROR, and isProcessing returns to false once the calls of the
\* run have settled, whether they failed or not.
C28_ProcessAllTerminates ==
    /\ \A id \in FileIds : InRun(id) ~> Finished(id)
    /\ isProcessing ~> (~isProcessing /\ \A id \in FileIds : calls[id].batch = 0)

\* A run of Process All is over with every analysis failed: a file is ERROR
\* only by a call that failed, and the first call of a file is one of
\* Process All.
C28_Witness ==
    /\ ~isProcessing
    /\ Cardinality(Listed) = MaxFiles
    /\ \A id \in Listed : files[id] = "ERROR" /\ InFlight(id) = 0

\* C29: for an image of at least one pixel by one pixel the canvas of the
\* normaliser is at least one pixel wide and one pixel high, also when the
\* image is very long or very tall.
C29_CanvasAtLeastOne ==
    (fpc = "resolved" /\ imgWidth >= 1 /\ imgHeight >= 1)
        => (canvasWidth >= 1 /\ canvasHeight >= 1)

\* The credential analyzeImage would take for a call of the page.
ResolverYields == EffectiveKey("v2", userKey, buildKey, metaEnvKey)

\* C30: handleProcessAll opens the credential dialog and starts nothing
\* exactly when the Credential Resolver of analyzeImage would find no
\* credential; when the resolver would yield one, the user's or one of the
\* two of the bundle, the run starts with a call for every file that waits
\* or has failed.
C30_DialogIffNoCredential ==
    [][(HandleProcessAll /\ UNCHANGED notAppVars) =>
          IF ResolverYields = ""
          THEN isApiKeyModalOpen' /\ ~isProcessing' /\ calls' = calls
          ELSE /\ ~isApiKeyModalOpen'
               /\ isProcessing'
               /\ \A id \in Listed :
                     files[id] \in {"IDLE", "ERROR"} => calls'[id].batch = 1]_vars

\* Process All has started a run on the credential the bundle has from
\* VITE_API_KEY, the user having given none.
C30_Witness ==
    /\ userKey = ""
    /\ metaEnvKey = "vite-key"
    /\ isProcessing
    /\ issued # {}
    /\ \A r \in issued : r.via = "processAll"

====
